---- MODULE Spec2Model ----
(* Model of DonationProcessor (src/process_incoming_donations.py): the     *)
(* Incoming directory of CSV files, the persisted DonorLifetimeGiving      *)
(* table, and one run of process_files: read -> parse dates -> aggregate   *)
(* -> read existing -> merge -> save.                                       *)
EXTENDS Integers, Sequences, FiniteSets, TLC

VARIABLES
    ansiEnabled,  \* the session's spark.sql.ansi.enabled, which __init__ leaves at the build's default
    incoming,     \* the Incoming directory: the CSV files in glob order
    tableExists,  \* parquet_path.exists()
    table,        \* rows of data.parquet (<<>> while it does not exist)
    runs,         \* number of process_files calls so far
    last          \* what the latest process_files call did (history)

vars == <<ansiEnabled, incoming, tableExists, table, runs, last>>

-----------------------------------------------------------------------------
(* Bounds *)
MaxFiles == 2      \* CSV files in the Incoming directory
MaxRuns == 2       \* process_files calls in one behaviour
MaxAmount == 2     \* largest Amount cell
MaxRows == 2       \* rows of the CSV file of a first run (SpecAgg)
MaxBatch == 1      \* rows of the CSV file merged into an existing table (SpecMerge)

-----------------------------------------------------------------------------
(* Values *)
Donors == {"D1", "D2"}
Names == {"Alice", "Alicia"}
Amounts == 1 .. MaxAmount

\* Date cells are text; a text is a sequence of characters.
DateTexts ==
    { <<"1", "/", "2", "/", "2", "0", "2", "4">>,          \* 1/2/2024
      <<"1", "2", "/", "3", "1", "/", "2", "0", "2", "3">>, \* 12/31/2023
      <<"l", "a", "s", "t", " ", "M", "a", "y">> }             \* last May

NULL == <<>>   \* SQL NULL in a date column; a date is <<year, month, day>>

HStd == <<"DonorID", "Name", "Amount", "Date">>
HSwap == <<"Name", "DonorID", "Amount", "Date">>
HShort == <<"DonorID", "Name", "Amount">>
Headers == {HStd, HSwap, HShort}

-----------------------------------------------------------------------------
(* to_date(col("Date"), "M/d/yyyy") *)
Digits == {"0", "1", "2", "3", "4", "5", "6", "7", "8", "9"}

DigitVal(c) ==
    CASE c = "0" -> 0 [] c = "1" -> 1 [] c = "2" -> 2 [] c = "3" -> 3
      [] c = "4" -> 4 [] c = "5" -> 5 [] c = "6" -> 6 [] c = "7" -> 7
      [] c = "8" -> 8 [] c = "9" -> 9

RECURSIVE ParseInt(_)
ParseInt(s) ==
    IF s = <<>> THEN 0
    ELSE 10 * ParseInt(SubSeq(s, 1, Len(s) - 1)) + DigitVal(s[Len(s)])

IsLeap(y) == (y % 4 = 0 /\ y % 100 # 0) \/ y % 400 = 0

DaysInMonth(y, m) ==
    IF m = 2 THEN (IF IsLeap(y) THEN 29 ELSE 28)
    ELSE IF m \in {4, 6, 9, 11} THEN 30 ELSE 31

\* NULL for a text that is not month/day/4-digit-year.
ToDate(text) ==
    LET slashes == {i \in 1 .. Len(text) : text[i] = "/"}
    IN  IF Cardinality(slashes) # 2 THEN NULL
        ELSE
          LET i1 == CHOOSE i \in slashes : \A j \in slashes : i <= j
              i2 == CHOOSE i \in slashes : \A j \in slashes : j <= i
              mm == SubSeq(text, 1, i1 - 1)
              dd == SubSeq(text, i1 + 1, i2 - 1)
              yy == SubSeq(text, i2 + 1, Len(text))
              allDigits == \A i \in (1 .. Len(text)) \ slashes : text[i] \in Digits
          IN  IF /\ allDigits
                 /\ Len(mm) \in 1 .. 2
                 /\ Len(dd) \in 1 .. 2
                 /\ Len(yy) = 4
                 /\ ParseInt(mm) \in 1 .. 12
                 /\ ParseInt(dd) \in 1 .. DaysInMonth(ParseInt(yy), ParseInt(mm))
              THEN <<ParseInt(yy), ParseInt(mm), ParseInt(dd)>>
              ELSE NULL

\* an order that compares month and day before the year, as the M/d/yyyy text reads
DateLEMonthFirst(a, b) ==
    \/ a[2] < b[2]
    \/ a[2] = b[2] /\ a[3] < b[3]
    \/ a[2] = b[2] /\ a[3] = b[3] /\ a[1] <= b[1]

\* Order of two non-NULL dates.
DateLE(a, b) ==
    \/ a[1] < b[1]
    \/ a[1] = b[1] /\ a[2] < b[2]
    \/ a[1] = b[1] /\ a[2] = b[2] /\ a[3] <= b[3]


-----------------------------------------------------------------------------
(* _read_csv_files *)

\* spark.read.option("header", "true").csv(file): the header row names the columns
ReadCsv(file) == [cols |-> file.header, rows |-> file.rows]

EmptyFrame == [cols |-> <<>>, rows |-> <<>>]

\* a.union(b): resolves columns by position, keeps a's names, and is refused
\* when the numbers of columns differ
Union(a, b) ==
    IF Len(a.cols) # Len(b.cols)
    THEN [err |-> "AnalysisException", df |-> EmptyFrame]
    ELSE [err |-> "", df |-> [cols |-> a.cols, rows |-> a.rows \o b.rows]]

RECURSIVE ReduceUnion(_)
ReduceUnion(dfs) ==
    IF Len(dfs) = 1 THEN [err |-> "", df |-> dfs[1]]
    ELSE LET acc == ReduceUnion(SubSeq(dfs, 1, Len(dfs) - 1))
         IN  IF acc.err # "" THEN acc ELSE Union(acc.df, dfs[Len(dfs)])

ReadCsvFiles(files) ==
    IF files = <<>>
    THEN [err |-> "FileNotFoundError", df |-> EmptyFrame]
    ELSE ReduceUnion([i \in 1 .. Len(files) |-> ReadCsv(files[i])])

-----------------------------------------------------------------------------
(* Column access by name *)
HasCol(df, c) == \E j \in 1 .. Len(df.cols) : df.cols[j] = c

ColIndex(df, c) == CHOOSE j \in 1 .. Len(df.cols) : df.cols[j] = c

\* df.withColumn("Date", to_date(col("Date"), "M/d/yyyy")), rows read by column name
ParseDates(df) ==
    [i \in 1 .. Len(df.rows) |->
        [DonorID |-> df.rows[i][ColIndex(df, "DonorID")],
         Name    |-> df.rows[i][ColIndex(df, "Name")],
         Amount  |-> df.rows[i][ColIndex(df, "Amount")],
         Date    |-> ToDate(df.rows[i][ColIndex(df, "Date")])]]

-----------------------------------------------------------------------------
(* groupBy("DonorID").agg(first, sum, max) *)

\* the distinct DonorIDs of the rows, one per group
RECURSIVE GroupKeys(_)
GroupKeys(rows) ==
    IF rows = <<>> THEN <<>>
    ELSE LET rest == GroupKeys(SubSeq(rows, 1, Len(rows) - 1))
             k == rows[Len(rows)].DonorID
         IN  IF \E i \in 1 .. Len(rest) : rest[i] = k THEN rest ELSE Append(rest, k)

Group(rows, k) == SelectSeq(rows, LAMBDA r : r.DonorID = k)

\* a sum that keeps the latest value instead of adding it
SumKeepsLast(vals) == IF vals = <<>> THEN 0 ELSE vals[Len(vals)]

RECURSIVE SparkSum(_)
SparkSum(vals) ==
    IF vals = <<>> THEN 0
    ELSE SparkSum(SubSeq(vals, 1, Len(vals) - 1)) + vals[Len(vals)]

\* a max that keeps the latest non-NULL value instead of comparing
RECURSIVE MaxKeepsLast(_)
MaxKeepsLast(dates) ==
    IF dates = <<>> THEN NULL
    ELSE IF dates[Len(dates)] # NULL THEN dates[Len(dates)]
    ELSE MaxKeepsLast(SubSeq(dates, 1, Len(dates) - 1))

\* max skips NULL, and is NULL when every value is NULL
RECURSIVE SparkMax(_)
SparkMax(dates) ==
    IF dates = <<>> THEN NULL
    ELSE LET m == SparkMax(SubSeq(dates, 1, Len(dates) - 1))
             d == dates[Len(dates)]
         IN  IF d = NULL THEN m
             ELSE IF m = NULL THEN d
             ELSE IF DateLE(m, d) THEN d ELSE m

\* first(col): the value of whichever row of the group the engine meets first;
\* after the shuffle of a groupBy that is any row of the group
SparkFirst(vals) == {vals[i] : i \in 1 .. Len(vals)}

\* every way to take one element from each set of a sequence of sets
RECURSIVE Pick(_)
Pick(sets) ==
    IF sets = <<>> THEN {<<>>}
    ELSE {Append(p, x) : p \in Pick(SubSeq(sets, 1, Len(sets) - 1)), x \in sets[Len(sets)]}

\* the possible results of _aggregate_donations on the parsed rows
AggregateDonations(rows) ==
    LET keys == GroupKeys(rows)
        g(i) == Group(rows, keys[i])
        firsts == [i \in 1 .. Len(keys) |->
                      SparkFirst([j \in 1 .. Len(g(i)) |-> g(i)[j].Name])]
    IN  { [i \in 1 .. Len(keys) |->
              [DonorID        |-> keys[i],
               Name           |-> nm[i],
               LifetimeAmount |-> SparkSum([j \in 1 .. Len(g(i)) |-> g(i)[j].Amount]),
               LastDonation   |-> SparkMax([j \in 1 .. Len(g(i)) |-> g(i)[j].Date])]]
          : nm \in Pick(firsts) }

-----------------------------------------------------------------------------
(* _read_existing_table, _merge_data, _save_data *)

ReadExistingTable ==
    [present |-> tableExists, rows |-> IF tableExists THEN table ELSE <<>>]

\* combined_df.groupBy("DonorID").agg(first, sum, max) on the aggregate columns
Regroup(combined) ==
    LET keys == GroupKeys(combined)
        g(i) == Group(combined, keys[i])
        firsts == [i \in 1 .. Len(keys) |->
                      SparkFirst([j \in 1 .. Len(g(i)) |-> g(i)[j].Name])]
    IN  { [i \in 1 .. Len(keys) |->
              [DonorID        |-> keys[i],
               Name           |-> nm[i],
               LifetimeAmount |-> SparkSum([j \in 1 .. Len(g(i)) |-> g(i)[j].LifetimeAmount]),
               LastDonation   |-> SparkMax([j \in 1 .. Len(g(i)) |-> g(i)[j].LastDonation])]]
          : nm \in Pick(firsts) }

\* a merge that replaces the table by the incoming aggregate
MergeOverwrites(new, existing) == {new}

\* a merge that returns the (absent) existing table on the first run
MergeReturnsExisting(new, existing) ==
    IF ~existing.present THEN {existing.rows}
    ELSE Regroup(existing.rows \o new)

\* the possible results of _merge_data(new_aggregated, existing_aggregated)
MergeData(new, existing) ==
    IF ~existing.present THEN {new}
    ELSE Regroup(existing.rows \o new)

\* a save that opens data.parquet for writing before the plan is evaluated
SaveTruncatesFirst(df, collectFails) ==
    IF collectFails
    THEN [err |-> "DateTimeException", exists |-> TRUE, rows |-> <<>>]
    ELSE [err |-> "", exists |-> TRUE, rows |-> df]

\* df.toPandas() evaluates the whole plan; only then is data.parquet replaced
SaveData(df, collectFails) ==
    IF collectFails
    THEN [err |-> "DateTimeException", exists |-> tableExists, rows |-> table]
    ELSE [err |-> "", exists |-> TRUE, rows |-> df]

-----------------------------------------------------------------------------
(* process_files *)

NoRun ==
    [ran |-> FALSE, outcome |-> "none", files |-> <<>>,
     existing |-> [present |-> FALSE, rows |-> <<>>],
     df |-> <<>>, agg |-> <<>>, merged |-> <<>>]

\* an exception raised before _save_data is reached
Failed(err) ==
    /\ last' = [ran |-> TRUE, outcome |-> err, files |-> incoming,
                existing |-> ReadExistingTable, df |-> <<>>,
                agg |-> <<>>, merged |-> <<>>]
    /\ UNCHANGED <<tableExists, table>>

ProcessFiles ==
    /\ runs < MaxRuns
    /\ runs' = runs + 1
    /\ UNCHANGED <<ansiEnabled, incoming>>
    /\ LET rd == ReadCsvFiles(incoming)
       IN  IF rd.err # "" THEN Failed(rd.err)
           ELSE IF \E c \in {"DonorID", "Name", "Amount", "Date"} : ~HasCol(rd.df, c)
           THEN Failed("AnalysisException")
           ELSE
             LET rows == ParseDates(rd.df)
                 \* with ANSI semantics to_date raises on a text it cannot parse,
                 \* when the plan is evaluated
                 collectFails == ansiEnabled /\ \E i \in 1 .. Len(rows) : rows[i].Date = NULL
                 existing == ReadExistingTable
             IN  \E agg \in AggregateDonations(rows) :
                 \E merged \in MergeData(agg, existing) :
                    LET sv == SaveData(merged, collectFails)
                    IN  /\ tableExists' = sv.exists
                        /\ table' = sv.rows
                        /\ last' = [ran |-> TRUE,
                                    outcome |-> IF sv.err = "" THEN "ok" ELSE sv.err,
                                    files |-> incoming, existing |-> existing,
                                    df |-> rows,
                                    agg |-> IF sv.err = "" THEN agg ELSE <<>>,
                                    merged |-> IF sv.err = "" THEN merged ELSE <<>>]

-----------------------------------------------------------------------------
(* The environment: CSV files appear in Incoming; the code never removes them *)

\* the line of a CSV file with header h that holds the record r
CsvRow(h, r) == [j \in 1 .. Len(h) |-> r[h[j]]]

CsvFile(h, records) ==
    [header |-> h, rows |-> [i \in 1 .. Len(records) |-> CsvRow(h, records[i])]]

UnitRows == [DonorID : Donors, Name : {"Alice"}, Amount : {1}, Date : DateTexts]

AllRows == [DonorID : Donors, Name : Names, Amount : Amounts, Date : DateTexts]

\* a one-line CSV file is dropped into Incoming
WriteFile ==
    /\ Len(incoming) < MaxFiles
    /\ \E h \in Headers : \E r \in UnitRows :
          incoming' = Append(incoming, CsvFile(h, <<r>>))
    /\ UNCHANGED <<ansiEnabled, tableExists, table, runs, last>>

-----------------------------------------------------------------------------
(* Spec: files arrive between runs; the warehouse is fresh or holds a table *)

ParsedDates == {ToDate(t) : t \in DateTexts}

SeedTables ==
    {<<r>> : r \in [DonorID : {"D1"}, Name : {"Alice"}, LifetimeAmount : {1},
                     LastDonation : ParsedDates \ {NULL}]}

Init ==
    /\ ansiEnabled \in BOOLEAN
    /\ incoming = <<>>
    /\ tableExists \in BOOLEAN
    /\ table \in (IF tableExists THEN SeedTables ELSE {<<>>})
    /\ runs = 0
    /\ last = NoRun

Next == WriteFile \/ ProcessFiles

Spec == Init /\ [][Next]_vars

-----------------------------------------------------------------------------
(* SpecAgg: the first run, over one CSV file of up to MaxRows rows *)

InitAgg ==
    /\ ansiEnabled \in BOOLEAN
    /\ \E k \in 1 .. MaxRows : \E rs \in [1 .. k -> AllRows] :
          incoming = <<CsvFile(HStd, rs)>>
    /\ tableExists = FALSE
    /\ table = <<>>
    /\ runs = 0
    /\ last = NoRun

FirstRun == ~last.ran /\ ProcessFiles

NextAgg == FirstRun

SpecAgg == InitAgg /\ [][NextAgg]_vars

-----------------------------------------------------------------------------
(* SpecMerge: one run over one CSV file, on top of a table persisted earlier *)

AggregateRows ==
    [DonorID : Donors, Name : {"Alice"}, LifetimeAmount : Amounts,
     LastDonation : ParsedDates]

\* tables as a groupBy leaves them: one row per DonorID
ExistingTables ==
    {<<r>> : r \in AggregateRows}
      \cup {t \in AggregateRows \X AggregateRows : t[1].DonorID # t[2].DonorID}

InitMerge ==
    /\ ansiEnabled = FALSE
    /\ \E k \in 1 .. MaxBatch : \E rs \in [1 .. k -> AllRows] :
          incoming = <<CsvFile(HStd, rs)>>
    /\ tableExists = TRUE
    /\ table \in ExistingTables
    /\ runs = 0
    /\ last = NoRun

MergeRun == ~last.ran /\ ProcessFiles

NextMerge == MergeRun

SpecMerge == InitMerge /\ [][NextMerge]_vars

-----------------------------------------------------------------------------
(* Vocabulary of the properties *)

KeysOf(rows) == {rows[i].DonorID : i \in 1 .. Len(rows)}

OneRowPerDonor(rows) ==
    \A i, j \in 1 .. Len(rows) : rows[i].DonorID = rows[j].DonorID => i = j

RowOf(rows, d) == rows[CHOOSE i \in 1 .. Len(rows) : rows[i].DonorID = d]

\* the sum of f over a finite set of row numbers, in no particular order
RECURSIVE SumOver(_, _)
SumOver(S, f) ==
    IF S = {} THEN 0
    ELSE LET x == CHOOSE y \in S : TRUE IN f[x] + SumOver(S \ {x}, f)

DayNumber(d) == d[1] * 10000 + d[2] * 100 + d[3]

\* the later of two dates, NULL counting as no date
Later(a, b) ==
    IF a = NULL THEN b
    ELSE IF b = NULL THEN a
    ELSE IF DayNumber(a) <= DayNumber(b) THEN b ELSE a

\* d is the latest of the dates, or NULL when there is none
IsLatest(d, dates) ==
    LET known == dates \ {NULL}
    IN  IF known = {} THEN d = NULL
        ELSE d \in known /\ \A e \in known : DayNumber(e) <= DayNumber(d)

AmountOr0(rows, d) == IF d \in KeysOf(rows) THEN RowOf(rows, d).LifetimeAmount ELSE 0

DateOrNull(rows, d) == IF d \in KeysOf(rows) THEN RowOf(rows, d).LastDonation ELSE NULL

Merged == last.outcome = "ok" /\ last.existing.present

-----------------------------------------------------------------------------
(* C1: after a merge with an existing table, the result has one row for each *)
(* DonorID of either side and no other, and its LifetimeAmount is the sum of *)
(* the two sides' LifetimeAmounts, a missing side counting as nothing.       *)
C1_MergeAddsLifetimeAmounts ==
    Merged =>
        /\ OneRowPerDonor(last.merged)
        /\ KeysOf(last.merged) = KeysOf(last.existing.rows) \cup KeysOf(last.agg)
        /\ \A d \in KeysOf(last.merged) :
              RowOf(last.merged, d).LifetimeAmount
                 = AmountOr0(last.existing.rows, d) + AmountOr0(last.agg, d)

C1_Witness ==
    /\ Merged
    /\ KeysOf(last.existing.rows) \cap KeysOf(last.agg) # {}
    /\ KeysOf(last.existing.rows) \ KeysOf(last.agg) # {}

C3_NameFromIncoming ==
    Merged =>
        \A d \in KeysOf(last.merged) :
            RowOf(last.merged, d).Name
               = IF d \in KeysOf(last.agg) THEN RowOf(last.agg, d).Name
                 ELSE RowOf(last.existing.rows, d).Name

(* C4: a second successful run over the same unchanged files leaves every    *)
(* donor's LifetimeAmount as the first run left it.                           *)
C4_RerunDoesNotDoubleCount ==
    [][ ( /\ runs' = runs + 1
          /\ last.outcome = "ok" /\ last.files = incoming
          /\ last'.outcome = "ok" )
        => \A d \in KeysOf(table) :
              RowOf(table', d).LifetimeAmount = RowOf(table, d).LifetimeAmount ]_vars

(* C5: a run that fails leaves the persisted table as it was: absent stays   *)
(* absent, and existing rows stay as they were.                               *)
C5_FailedRunKeepsTable ==
    [][ (runs' = runs + 1 /\ last'.outcome # "ok")
        => (tableExists' = tableExists /\ table' = table) ]_vars

C5_Witness ==
    /\ last.ran
    /\ last.outcome = "FileNotFoundError"
    /\ tableExists
    /\ table # <<>>

(* C6: a run over a record whose Date text is not M/d/yyyy fails with the    *)
(* invalid-date error, so no such record reaches the persisted table.         *)
C6_InvalidDateFailsRun ==
    (last.ran /\ \E i \in 1 .. Len(last.df) : last.df[i].Date = NULL)
        => last.outcome = "DateTimeException"

(* C7: after a merge with an existing table, a donor's LastDonation is the   *)
(* later of the two sides' dates (one side's date when the other has none),  *)
(* so the persisted LastDonation of a donor never moves to an earlier date.   *)
C7_MergeKeepsLaterDate ==
    Merged =>
        /\ table = last.merged
        /\ \A d \in KeysOf(last.merged) :
              RowOf(last.merged, d).LastDonation
                 = Later(DateOrNull(last.existing.rows, d), DateOrNull(last.agg, d))
        /\ \A d \in KeysOf(last.existing.rows) :
              RowOf(last.existing.rows, d).LastDonation # NULL =>
                 /\ RowOf(table, d).LastDonation # NULL
                 /\ DayNumber(RowOf(last.existing.rows, d).LastDonation)
                       <= DayNumber(RowOf(table, d).LastDonation)

C7_Witness ==
    /\ Merged
    /\ \E d \in KeysOf(last.existing.rows) \cap KeysOf(last.agg) :
          /\ RowOf(last.agg, d).LastDonation # NULL
          /\ RowOf(last.existing.rows, d).LastDonation # NULL
          /\ DayNumber(RowOf(last.agg, d).LastDonation)
                < DayNumber(RowOf(last.existing.rows, d).LastDonation)
    /\ \E d \in KeysOf(last.existing.rows) : d \notin KeysOf(last.agg)

(* C8: the first run, with no persisted table, writes the aggregate of its   *)
(* records as it is: one row per DonorID of the records, that donor's Name,  *)
(* the sum of its Amounts and the latest of its Dates.                        *)
C8_FirstRunWritesAggregate ==
    (last.outcome = "ok" /\ ~last.existing.present) =>
        /\ tableExists
        /\ table = last.agg
        /\ OneRowPerDonor(table)
        /\ KeysOf(table) = KeysOf(last.df)
        /\ \A d \in KeysOf(table) :
              LET of == {i \in 1 .. Len(last.df) : last.df[i].DonorID = d}
              IN  /\ RowOf(table, d).Name \in {last.df[i].Name : i \in of}
                  /\ RowOf(table, d).LifetimeAmount
                        = SumOver(of, [i \in of |-> last.df[i].Amount])
                  /\ IsLatest(RowOf(table, d).LastDonation, {last.df[i].Date : i \in of})

C8_Witness ==
    /\ last.outcome = "ok"
    /\ ~last.existing.present
    /\ Len(last.df) = 2
    /\ Len(table) = 2

C10_HeaderMismatchFailsFast ==
    (last.ran /\ \E i, j \in 1 .. Len(last.files) :
                    last.files[i].header # last.files[j].header)
        => last.outcome = "AnalysisException"

====
